---- MODULE Spec2Model ----
(***************************************************************************)
(* The training harness of ShuffleNet/pytorch/train.py as a state machine: *)
(* the command line, the two data loaders, the construction of the model,  *)
(* optimizer, scheduler and loggers, the optional checkpoint load, the    *)
(* validation pass of epoch 0, and the epoch loop (train, validate,       *)
(* scheduler step, checkpoint write).  The file system outlives a process; *)
(* a process can be killed at any point and a new one started.             *)
(*                                                                         *)
(* Floating-point values (losses, accuracies) are modelled as exact        *)
(* rationals [n, d] in lowest terms.                                       *)
(***************************************************************************)
EXTENDS Integers, Sequences, FiniteSets, TLC

\* ------------------------------------------------------------------ bounds
\* total_epochs of a configuration (200 in the source), scaled down.
TotalEpochs == 2
\* batch_size of a configuration (128 in the source), scaled down.
BatchSize == 2
\* Number of classes of the classifier (1000 for ImageNet), scaled down.
NumClasses == 6
\* Largest validation set (in samples).
MaxValSize == 3
\* Batches beyond two full logging windows in the largest training set.
MaxExtraBatches == 1
\* Largest random initialisation of the network's parameters explored by
\* the specification of the validation pass (ValSpec).
MaxSeed == 1
\* Number of processes started one after the other.
MaxRuns == 2

\* --------------------------------------------------------------- constants
\* train: "if batch_i % 10 == 9" and "batches_loss / 10.0".
LogEvery == 10
\* validate: accuracy(output, annotation, topk=(1, 5)).
MaxK == 5

VARIABLES
    fs,              \* file system: checkpoint file name -> content
    saved,           \* history: file name -> the live state at its save
    clock,           \* wall clock in seconds (time.localtime())
    runs,            \* processes started so far
    train_batches,   \* len(train_loader)
    val_labels,      \* annotations of the validation set, in dataset order
    pc,              \* position of the process
    model_name,      \* args.model
    checkpoint_path, \* args.checkpoint
    net, optimizer, scheduler, loggers,
    model_id, start_epoch, epoch,
    batch_i, batches_loss,      \* locals of train
    train_base,      \* history: the train_loss points when train was called
    losses,          \* history: loss.item() of the batches of this train call
    updates,         \* history: the gradients each optimizer.step() of this
                     \* train call used
    val_i, top1_acc, top5_acc, total_loss,   \* locals of validate
    val_ret,         \* what the last validate call returned
    events,          \* history: the steps this process completed, in order
    written,         \* history: the checkpoint files this process wrote
    reads,           \* history: the checkpoint reads of this process
    failure,         \* history: why the process aborted ("" when it did not)
    vghost           \* history: per-sample totals of the running validation

vars == <<fs, saved, clock, runs, train_batches, val_labels, pc, model_name,
          checkpoint_path, net, optimizer, scheduler, loggers, model_id,
          start_epoch, epoch, batch_i, batches_loss, train_base, losses,
          updates, val_i, top1_acc, top5_acc, total_loss, val_ret, events, written, reads,
          failure, vghost>>

\* ------------------------------------------------------------- rationals
RECURSIVE GCD(_, _)
GCD(a, b) == IF b = 0 THEN a ELSE GCD(b, a % b)

Rat(n, d) == LET g == GCD(n, d) IN [n |-> n \div g, d |-> d \div g]
RZero == [n |-> 0, d |-> 1]
RAdd(a, b) == Rat(a.n * b.d + b.n * a.d, a.d * b.d)
RDiv(a, k) == Rat(a.n, a.d * k)
RLe(a, b) == a.n * b.d <= b.n * a.d
REq(a, b) == a.n * b.d = b.n * a.d

Min(a, b) == IF a < b THEN a ELSE b
Max(a, b) == IF a > b THEN a ELSE b

RECURSIVE SeqSum(_)
SeqSum(s) == IF s = <<>> THEN 0 ELSE Head(s) + SeqSum(Tail(s))

\* ------------------------------------------------------- configuration
\* The keys of training_config; both entries use ReduceLROnPlateau.
ModelKeys == {"alexnet1", "alexnet2"}

\* training_config.get(key): the fields the driver reads.
TrainingConfig(key) ==
    [name |-> key,
     batch_size |-> BatchSize,
     scheduler |-> "ReduceLROnPlateau",
     total_epochs |-> TotalEpochs]

\* A --model value that is not among the parser's choices.
UnknownKey == "unknown"

\* checkpoint_path when --checkpoint is not given (None).
NoPath == <<>>
\* A --checkpoint path that names no file.
MissingPath == <<"missing.pt">>

Classes == 1 .. NumClasses
Terminal == {"done", "aborted", "killed"}
Running == {"main", "train_loader", "val_loader", "setup", "load",
            "validate", "train", "sched", "save"}

\* ------------------------------------------------------------ file names
DigitChars == <<"0", "1", "2", "3", "4", "5", "6", "7", "8", "9">>

\* The decimal digits '{}'.format(n) writes.
RECURSIVE Digits(_)
Digits(n) ==
    IF n < 10 THEN <<DigitChars[n + 1]>>
    ELSE Digits(n \div 10) \o <<DigitChars[(n % 10) + 1]>>

\* Faulty variant: the file name does not carry the epoch.
CheckpointFileNoEpoch(name, id, e) ==
    <<name, "-">> \o Digits(id) \o <<"-epoch", ".pt">>

\* '{}-{}-epoch-{}.pt'.format(model_name, model_id, epoch)
CheckpointFile(name, id, e) ==
    <<name, "-">> \o Digits(id) \o <<"-epoch-">> \o Digits(e) \o <<".pt">>

\* ---------------------------------------------------------------- loggers
MetricNames == {"train_loss", "val_loss", "val_top1_acc", "val_top5_acc"}

InitializeLoggers ==
    [name \in MetricNames |-> [epochs |-> <<>>, value |-> <<>>]]

\* Faulty variant: the point is labelled with the epoch after the given one.
LogMetricsNextEpoch(lg, name, value, e) ==
    [lg EXCEPT ![name] = [epochs |-> Append(@.epochs, e + 1),
                          value |-> Append(@.value, value)]]

\* log_metrics(loggers, name, value, epoch)
LogMetrics(lg, name, value, e) ==
    [lg EXCEPT ![name] = [epochs |-> Append(@.epochs, e),
                          value |-> Append(@.value, value)]]

\* ------------------------------------------------ network and data stand-ins
\* The model architectures and the dataset are external collaborators.  The
\* network is a pure function of its parameters and of the image (abstracted
\* to its index in the dataset); the parameters are abstracted to the random
\* initialisation (init) and the number of optimizer updates applied since
\* (version).  Besides its parameters a network holds buffers (the running
\* statistics of its normalisation layers, abstracted to the number of
\* forward passes that updated them), the mode set by net.train() and
\* net.eval(), and the gradients of its parameters (grad: the batches whose
\* backward pass contributed to them, as <<epoch, batch_i>>).  An untrained network of an odd initialisation scores the two
\* best classes equally, and the classes around rank MaxK equally, so that
\* topk's choice among equal scores is exercised.
Score(n, x) ==
    LET raw == [c \in Classes |->
                   (c + x + n.version + (n.init \div 2)) % NumClasses]
    IN  IF n.init % 2 = 1 /\ n.version = 0
        THEN [c \in Classes |->
                 Min(Max(raw[c], NumClasses - MaxK), NumClasses - 2)]
        ELSE raw

\* loss.item() of training batch batch_i under parameters n.
TrainLoss(n, i) == (n.version + i) % 3

\* Per-sample loss of the criterion: 0 when the label has the top score.
SampleLoss(scores, label) ==
    LET top == CHOOSE c \in Classes : \A d \in Classes : scores[d] <= scores[c]
    IN  scores[top] - scores[label]

\* len(val_loader): the number of validation batches, the last one smaller
\* when the set size is no multiple of the batch size.
NumValBatches == (Len(val_labels) + BatchSize - 1) \div BatchSize

\* The dataset indices of validation batch i (0-based), in dataset order.
ValBatch(i) ==
    LET lo == i * BatchSize + 1
        hi == Min((i + 1) * BatchSize, Len(val_labels))
    IN  [j \in 1 .. (hi - lo + 1) |-> lo + j - 1]

\* ------------------------------------------------------------- accuracy
\* output.topk(k, 1, True, True) for one sample: the indices of the k largest
\* scores, largest first.  The order among equal scores is not specified by
\* the library, so every order is a possible result.
RECURSIVE TopkFrom(_, _, _)
TopkFrom(scores, rem, k) ==
    IF k = 0 \/ rem = {} THEN {<<>>}
    ELSE LET best == {c \in rem : \A d \in rem : scores[d] <= scores[c]}
         IN  UNION {{<<c>> \o s : s \in TopkFrom(scores, rem \ {c}, k - 1)} :
                    c \in best}

Topk(scores, k) == TopkFrom(scores, Classes, k)

\* The possible values of pred for a batch: one top-k row per sample.
RECURSIVE BatchTopk(_, _)
BatchTopk(output, k) ==
    IF output = <<>> THEN {<<>>}
    ELSE {<<row>> \o rest : row \in Topk(Head(output), k),
                            rest \in BatchTopk(Tail(output), k)}

\* Faulty variant: the slice keeps the rows from k on, correct[k - 1:].
CorrectKFromK(pred, target, k) ==
    Cardinality({sj \in (DOMAIN target) \X (k .. MaxK) :
                    pred[sj[1]][sj[2]] = target[sj[1]]})

\* correct[:k].view(-1).float().sum(0): the matches in the first k rows.
CorrectK(pred, target, k) ==
    Cardinality({sj \in (DOMAIN target) \X (1 .. k) :
                    pred[sj[1]][sj[2]] = target[sj[1]]})

\* One entry of accuracy's result: correct_k.mul_(100.0 / batch_size), with
\* batch_size = target.size(0).
Accuracy(pred, target, k) == Rat(100 * CorrectK(pred, target, k), Len(target))

\* criterion(output, annotation): CrossEntropyLoss averages over the batch.
Criterion(output, target) ==
    Rat(SeqSum([s \in DOMAIN target |-> SampleLoss(output[s], target[s])]),
        Len(target))

\* -------------------------------------------------------- training state
\* Model(): the parameters are initialised at random; a new module is in
\* training mode and has no gradients.
FreshNet(key, seed) ==
    [arch |-> key, init |-> seed, version |-> 0, buffers |-> 0,
     training |-> TRUE, grad |-> <<>>]
\* The initialisations the driver's specification (Spec) follows.
DriverSeeds == {0}
NoNet == FreshNet("none", 0)

\* net.train() and net.eval(): the mode of the module.
NetTrain(n) == [n EXCEPT !.training = TRUE]

\* Faulty variant: validate leaves the module in the mode it finds it in.
NetEvalSkipped(n) == n

NetEval(n) == [n EXCEPT !.training = FALSE]

\* net(image): in training mode a forward pass updates the running
\* statistics, in evaluation mode it changes nothing.
Forward(n) == IF n.training THEN [n EXCEPT !.buffers = @ + 1] ELSE n

\* Faulty variant: the gradients of the earlier batches are kept.
ZeroGradSkipped(n) == n

\* optimizer.zero_grad(): the gradients of the parameters are reset.
ZeroGrad(n) == [n EXCEPT !.grad = <<>>]

\* loss.backward() for batch i of epoch e: gradients accumulate.
Backward(n, e, i) == [n EXCEPT !.grad = Append(@, <<e, i>>)]
FreshOptimizer == [steps |-> 0]
FreshScheduler == [last_epoch |-> 0, metrics |-> <<>>]

\* optimizer.step(): one update of the parameters and of the momentum buffers.
\* applied is the gradient the update used.
OptimizerStep(n, o) ==
    [net |-> [n EXCEPT !.version = @ + 1],
     optimizer |-> [o EXCEPT !.steps = @ + 1],
     applied |-> n.grad]

\* scheduler.step(arg): the scheduler's state is a function of the arguments
\* it was stepped with; arg is <<metric>> or, without argument, <<>>.
SchedulerStepWith(sch, arg) ==
    [last_epoch |-> sch.last_epoch + 1, metrics |-> Append(sch.metrics, arg)]

\* net.state_dict(), optimizer.state_dict(), scheduler.state_dict()
NetStateDict(n) ==
    [keys |-> n.arch, params |-> <<n.init, n.version>>, buffers |-> n.buffers]
OptStateDict(o) == [state |-> o.steps]
SchedStateDict(sch) == [last_epoch |-> sch.last_epoch, history |-> sch.metrics]

\* Faulty variant: the state dict is loaded without the strict check.
CompatibleAlways(n, ckpt) == TRUE

\* load_state_dict: strict, it raises when the checkpoint's parameter names
\* and shapes are not those of the current model.
Compatible(n, ckpt) == ckpt.model.keys = n.arch
NetLoadStateDict(n, sd) ==
    [n EXCEPT !.init = sd.params[1], !.version = sd.params[2],
              !.buffers = sd.buffers]
OptLoadStateDict(o, sd) == [o EXCEPT !.steps = sd.state]
\* Faulty variant: the scheduler of the checkpoint is not restored.
SchedLoadStateDictSkipped(sch, sd) == sch

SchedLoadStateDict(sch, sd) ==
    [last_epoch |-> sd.last_epoch, metrics |-> sd.history]

\* Faulty variant: the epoch stored is the next one.
CheckpointOfNextEpoch(e, n, o, sch, lg) ==
    [epoch |-> e + 1,
     model |-> NetStateDict(n),
     optimizer |-> OptStateDict(o),
     scheduler |-> SchedStateDict(sch),
     loggers |-> lg]

\* The dictionary run_epochs hands to torch.save.
CheckpointOf(e, n, o, sch, lg) ==
    [epoch |-> e,
     model |-> NetStateDict(n),
     optimizer |-> OptStateDict(o),
     scheduler |-> SchedStateDict(sch),
     loggers |-> lg]

\* Faulty variant: the resumed run starts at the saved epoch again.
ResumeEpochSame(ckpt) == ckpt.epoch

\* start_epoch = checkpoint['epoch'] + 1
ResumeEpoch(ckpt) == ckpt.epoch + 1

\* Faulty variant: the loggers of the checkpoint are dropped, the fresh ones kept.
LoadCheckpointKeepLoggers(ckpt, n, o, sch, lg) ==
    [net |-> NetLoadStateDict(n, ckpt.model),
     optimizer |-> OptLoadStateDict(o, ckpt.optimizer),
     scheduler |-> SchedLoadStateDict(sch, ckpt.scheduler),
     loggers |-> lg,
     start_epoch |-> ckpt.epoch + 1]

\* load_checkpoint's return value (net, optimizer, scheduler, loggers,
\* start_epoch) for a readable, compatible checkpoint.
LoadCheckpointResult(ckpt, n, o, sch, lg) ==
    [net |-> NetLoadStateDict(n, ckpt.model),
     optimizer |-> OptLoadStateDict(o, ckpt.optimizer),
     scheduler |-> SchedLoadStateDict(sch, ckpt.scheduler),
     loggers |-> ckpt.loggers,
     start_epoch |-> ResumeEpoch(ckpt)]

\* A file the kernel holds after a write was cut short, and the blank values
\* of a process that does not exist (any more).
NoCheckpoint ==
    CheckpointOf(0, NoNet, FreshOptimizer, FreshScheduler,
                 InitializeLoggers)
CorruptFile == [ok |-> FALSE, data |-> NoCheckpoint]
NoSnapshot ==
    [net |-> NoNet, optimizer |-> FreshOptimizer,
     scheduler |-> FreshScheduler, loggers |-> InitializeLoggers, epoch |-> 0]
NoReturn == [val_loss |-> RZero, top1_acc |-> RZero, top5_acc |-> RZero,
             epoch |-> 0 - 1, hits1 |-> 0, hits5 |-> 0, loss_sum |-> 0,
             samples |-> 0]
NoGhost == [hits1 |-> 0, hits5 |-> 0, loss_sum |-> 0, samples |-> 0,
            acc1 |-> RZero, acc5 |-> RZero]

WriteFile(files, name, content) ==
    [f \in (DOMAIN files) \cup {name} |->
        IF f = name THEN content ELSE files[f]]

\* Faulty variant: the range runs one epoch too far.
InRangeOffByOne(e, key) == e <= TrainingConfig(key).total_epochs + 1

\* for epoch in range(start_epoch, config.get('total_epochs') + 1)
InRange(e, key) == e <= TrainingConfig(key).total_epochs

\* ------------------------------------------------------------ initial state
\* The datasets on disk: a validation set of every size up to MaxValSize (a
\* size that is no multiple of BatchSize makes the last batch smaller), each
\* with a training set of less than one logging window, of one window
\* exactly, or of two windows and a rest.
ValLabels(size) == [x \in 1 .. size |-> ((2 * x) % NumClasses) + 1]

TrainSize(size) ==
    CASE size % 3 = 1 -> LogEvery - 1
      [] size % 3 = 2 -> LogEvery
      [] OTHER -> 2 * LogEvery + MaxExtraBatches

Datasets ==
    {[train_batches |-> TrainSize(size), val_labels |-> ValLabels(size)] :
        size \in 1 .. MaxValSize}

Event(op, e, n, arg) == [op |-> op, epoch |-> e, n |-> n, arg |-> arg]

Init ==
    /\ fs = [f \in {} |-> CorruptFile]
    /\ saved = [f \in {} |-> NoSnapshot]
    /\ clock = 1
    /\ runs = 1
    /\ \E d \in Datasets :
          /\ train_batches = d.train_batches
          /\ val_labels = d.val_labels
    /\ pc = "main"
    /\ model_name = "none"
    /\ checkpoint_path = NoPath
    /\ net = NoNet
    /\ optimizer = FreshOptimizer
    /\ scheduler = FreshScheduler
    /\ loggers = InitializeLoggers
    /\ model_id = 0
    /\ start_epoch = 0
    /\ epoch = 0
    /\ batch_i = 0
    /\ batches_loss = RZero
    /\ train_base = 0
    /\ losses = <<>>
    /\ updates = <<>>
    /\ val_i = 0
    /\ top1_acc = RZero
    /\ top5_acc = RZero
    /\ total_loss = RZero
    /\ val_ret = NoReturn
    /\ events = <<>>
    /\ written = <<>>
    /\ reads = 0
    /\ failure = ""
    /\ vghost = NoGhost

world == <<clock, runs, train_batches, val_labels>>
files == <<fs, saved>>
trainLocals == <<batch_i, batches_loss, train_base, losses, updates>>
valLocals == <<val_i, top1_acc, top5_acc, total_loss, vghost>>
state == <<net, optimizer, scheduler, loggers>>
history == <<events, written, reads>>

\* The first lines of validate: the accumulators start at zero.
EnterValidate ==
    /\ val_i' = 0
    /\ top1_acc' = RZero
    /\ top5_acc' = RZero
    /\ total_loss' = RZero
    /\ vghost' = NoGhost

\* The first lines of train: batches_loss = 0.0, enumerate from 0.
EnterTrain ==
    /\ batch_i' = 0
    /\ batches_loss' = RZero
    /\ train_base' = Len(loggers.train_loss.epochs)
    /\ losses' = <<>>
    /\ updates' = <<>>

\* ------------------------------------------------------------------ actions
\* __main__: parse the command line; an unknown --model ends the process
\* inside parse_args, before run_epochs is called.
Main ==
    /\ pc = "main"
    /\ \E key \in ModelKeys \cup {UnknownKey},
          path \in {NoPath, MissingPath} \cup DOMAIN fs :
          \/ /\ key \notin ModelKeys
             /\ pc' = "aborted"
             /\ failure' = "model_key"
             /\ UNCHANGED <<model_name, checkpoint_path>>
          \/ /\ key \in ModelKeys
             /\ model_name' = key
             /\ checkpoint_path' = path
             /\ pc' = "train_loader"
             /\ UNCHANGED failure
    /\ UNCHANGED <<world, files, state, model_id, start_epoch, epoch,
                   trainLocals, valLocals, val_ret, history>>

\* initialize_train_loader: the assert on the first training image.
InitializeTrainLoader ==
    /\ pc = "train_loader"
    /\ \E shape_ok \in BOOLEAN :
          /\ pc' = IF shape_ok THEN "val_loader" ELSE "aborted"
          /\ failure' = IF shape_ok THEN "" ELSE "train_image"
    /\ UNCHANGED <<world, files, model_name, checkpoint_path, state, model_id,
                   start_epoch, epoch, trainLocals, valLocals, val_ret,
                   history>>

\* initialize_val_loader: the assert on the first validation image.
InitializeValLoader ==
    /\ pc = "val_loader"
    /\ \E shape_ok \in BOOLEAN :
          /\ pc' = IF shape_ok THEN "setup" ELSE "aborted"
          /\ failure' = IF shape_ok THEN "" ELSE "val_image"
    /\ UNCHANGED <<world, files, model_name, checkpoint_path, state, model_id,
                   start_epoch, epoch, trainLocals, valLocals, val_ret,
                   history>>

\* run_epochs from the construction of the network to start_epoch = 1; with
\* no checkpoint path the validation of epoch 0 is next.
Setup ==
    /\ pc = "setup"
    /\ \E seed \in DriverSeeds : net' = FreshNet(model_name, seed)
    /\ optimizer' = FreshOptimizer
    /\ scheduler' = FreshScheduler
    /\ loggers' = InitializeLoggers
    /\ model_id' = clock
    /\ start_epoch' = 1
    /\ epoch' = 0
    /\ pc' = IF checkpoint_path = NoPath THEN "validate" ELSE "load"
    /\ EnterValidate
    /\ UNCHANGED <<world, files, model_name, checkpoint_path, trainLocals,
                   val_ret, history, failure>>

\* load_checkpoint and the assignment of its result in run_epochs.  torch.load
\* raises on a missing or unreadable file, load_state_dict on a checkpoint
\* of another architecture; nothing catches either.
LoadCheckpoint ==
    /\ pc = "load"
    /\ reads' = reads + 1
    /\ \/ /\ \/ checkpoint_path \notin DOMAIN fs
             \/ /\ checkpoint_path \in DOMAIN fs
                /\ \/ ~fs[checkpoint_path].ok
                   \/ ~Compatible(net, fs[checkpoint_path].data)
          /\ pc' = "aborted"
          /\ failure' = "checkpoint"
          /\ UNCHANGED <<state, start_epoch, events>>
       \/ /\ checkpoint_path \in DOMAIN fs
          /\ fs[checkpoint_path].ok
          /\ Compatible(net, fs[checkpoint_path].data)
          /\ LET r == LoadCheckpointResult(fs[checkpoint_path].data, net,
                                           optimizer, scheduler, loggers)
             IN  /\ net' = r.net
                 /\ optimizer' = r.optimizer
                 /\ scheduler' = r.scheduler
                 /\ loggers' = r.loggers
                 /\ start_epoch' = r.start_epoch
          /\ events' = Append(events, Event("load", 0, 0, <<>>))
          /\ pc' = "validate"
          /\ UNCHANGED failure
    /\ UNCHANGED <<world, files, model_name, checkpoint_path, model_id, epoch,
                   trainLocals, valLocals, val_ret, written>>

\* validate, one iteration of its loop: forward pass, criterion, accuracy,
\* and the three accumulations; the first iteration follows net.eval().
\* target, output and loss are the values of the batch (bound once each,
\* as singletons).
ValidateBatch ==
    /\ pc = "validate"
    /\ val_i < NumValBatches
    /\ \E target \in {[j \in DOMAIN ValBatch(val_i) |->
                         val_labels[ValBatch(val_i)[j]]]},
          output \in {[j \in DOMAIN ValBatch(val_i) |->
                         Score(net, ValBatch(val_i)[j])]} :
          \E pred \in BatchTopk(output, MaxK),
             loss \in {Criterion(output, target)} :
              /\ top1_acc' = RAdd(top1_acc, Accuracy(pred, target, 1))
              /\ top5_acc' = RAdd(top5_acc, Accuracy(pred, target, MaxK))
              /\ total_loss' = RAdd(total_loss, loss)
              /\ vghost' =
                    [hits1 |-> vghost.hits1 +
                        Cardinality({j \in DOMAIN target :
                                        pred[j][1] = target[j]}),
                     hits5 |-> vghost.hits5 +
                        Cardinality({j \in DOMAIN target :
                            \E r \in 1 .. MaxK : pred[j][r] = target[j]}),
                     loss_sum |-> vghost.loss_sum +
                        SeqSum([j \in DOMAIN target |->
                                   SampleLoss(output[j], target[j])]),
                     samples |-> vghost.samples + Len(target),
                     acc1 |-> Accuracy(pred, target, 1),
                     acc5 |-> Accuracy(pred, target, MaxK)]
    /\ net' = Forward(IF val_i = 0 THEN NetEval(net) ELSE net)
    /\ val_i' = val_i + 1
    /\ UNCHANGED <<world, files, pc, model_name, checkpoint_path, optimizer,
                   scheduler, loggers, model_id, start_epoch, epoch,
                   trainLocals, val_ret, history, failure>>

\* The epoch-level values validate computes after its loop: the sums divided
\* by len(val_loader).
ValidateResult(sum1, sum5, sumLoss, nBatches) ==
    [top1_acc |-> RDiv(sum1, nBatches),
     top5_acc |-> RDiv(sum5, nBatches),
     val_loss |-> RDiv(sumLoss, nBatches)]

\* validate after its loop: the three log_metrics calls and the return to
\* run_epochs, which enters the epoch loop (after the validation of epoch
\* 0) or goes on to the scheduler step.
ValidateEnd ==
    /\ pc = "validate"
    /\ val_i = NumValBatches
    /\ LET r == ValidateResult(top1_acc, top5_acc, total_loss, NumValBatches)
       IN  /\ loggers' =
                 LogMetrics(
                     LogMetrics(
                         LogMetrics(loggers, "val_top1_acc", r.top1_acc, epoch),
                         "val_top5_acc", r.top5_acc, epoch),
                     "val_loss", r.val_loss, epoch)
           /\ val_ret' = [val_loss |-> r.val_loss, top1_acc |-> r.top1_acc,
                          top5_acc |-> r.top5_acc, epoch |-> epoch,
                          hits1 |-> vghost.hits1, hits5 |-> vghost.hits5,
                          loss_sum |-> vghost.loss_sum,
                          samples |-> vghost.samples]
    /\ events' = Append(events,
                  Event("validate", epoch, val_i,
                        <<RDiv(top1_acc, NumValBatches)>>))
    /\ IF epoch = 0
       THEN /\ epoch' = start_epoch
            /\ pc' = IF InRange(start_epoch, model_name) THEN "train"
                     ELSE "done"
       ELSE /\ epoch' = epoch
            /\ pc' = "sched"
    /\ IF pc' = "train" THEN EnterTrain ELSE UNCHANGED trainLocals
    /\ UNCHANGED <<world, files, model_name, checkpoint_path, net, optimizer,
                   scheduler, model_id, start_epoch, valLocals, written,
                   reads, failure>>

\* Faulty variant: the sum of the window is logged undivided.
WindowSum(sum) == sum

\* The value train logs for a window: batches_loss / 10.0.
WindowMean(sum) == RDiv(sum, LogEvery)

\* Faulty variant: the window is closed at its first batch.
WindowEndsAtStart(i) == i % LogEvery = 0

\* "if batch_i % 10 == 9"
WindowEnds(i) == i % LogEvery = LogEvery - 1

\* train, one iteration of its loop: forward pass and loss, zero_grad,
\* backward, optimizer.step, the accumulation and, at the end of a window,
\* the log_metrics call and the reset of the accumulator; the first
\* iteration follows net.train().
TrainBatch ==
    /\ pc = "train"
    /\ batch_i < train_batches
    /\ LET loss == TrainLoss(net, batch_i)
           fwd == Forward(IF batch_i = 0 THEN NetTrain(net) ELSE net)
           bwd == Backward(ZeroGrad(fwd), epoch, batch_i)
           upd == OptimizerStep(bwd, optimizer)
           acc == RAdd(batches_loss, Rat(loss, 1))
       IN  /\ net' = upd.net
           /\ optimizer' = upd.optimizer
           /\ losses' = Append(losses, loss)
           /\ updates' = Append(updates, upd.applied)
           /\ IF WindowEnds(batch_i)
              THEN /\ loggers' = LogMetrics(loggers, "train_loss",
                                            WindowMean(acc), epoch)
                   /\ batches_loss' = RZero
              ELSE /\ loggers' = loggers
                   /\ batches_loss' = acc
    /\ batch_i' = batch_i + 1
    /\ UNCHANGED <<world, files, pc, model_name, checkpoint_path, scheduler,
                   model_id, start_epoch, epoch, train_base, valLocals,
                   val_ret, history, failure>>

\* train returns when the loader is exhausted; run_epochs calls validate.
TrainEnd ==
    /\ pc = "train"
    /\ batch_i = train_batches
    /\ events' = Append(events, Event("train", epoch, batch_i, <<>>))
    /\ pc' = "validate"
    /\ EnterValidate
    /\ UNCHANGED <<world, files, model_name, checkpoint_path, state, model_id,
                   start_epoch, epoch, trainLocals, val_ret, written, reads,
                   failure>>

\* Faulty variant: the plateau metric is the top-5 accuracy.
SchedulerArgTop5(key, ret) ==
    IF TrainingConfig(key).scheduler = "ReduceLROnPlateau"
    THEN <<ret.top5_acc>> ELSE <<>>

\* The argument of the scheduler step: top1_acc for a ReduceLROnPlateau,
\* none otherwise.
SchedulerArg(key, ret) ==
    IF TrainingConfig(key).scheduler = "ReduceLROnPlateau"
    THEN <<ret.top1_acc>> ELSE <<>>

\* scheduler.step(top1_acc) or scheduler.step()
SchedulerStep ==
    /\ pc = "sched"
    /\ scheduler' = SchedulerStepWith(scheduler, SchedulerArg(model_name, val_ret))
    /\ events' = Append(events, Event("sched", epoch, 0,
                                      SchedulerArg(model_name, val_ret)))
    /\ pc' = "save"
    /\ UNCHANGED <<world, files, model_name, checkpoint_path, net, optimizer,
                   loggers, model_id, start_epoch, epoch, trainLocals,
                   valLocals, val_ret, written, reads, failure>>

\* torch.save of the checkpoint of this epoch, then the next iteration of
\* the epoch loop or its end.
SaveCheckpoint ==
    /\ pc = "save"
    /\ LET name == CheckpointFile(model_name, model_id, epoch)
           data == CheckpointOf(epoch, net, optimizer, scheduler, loggers)
       IN  /\ fs' = WriteFile(fs, name, [ok |-> TRUE, data |-> data])
           /\ saved' = WriteFile(saved, name,
                           [net |-> net, optimizer |-> optimizer,
                            scheduler |-> scheduler, loggers |-> loggers,
                            epoch |-> epoch])
           /\ written' = Append(written,
                           [file |-> name, epoch |-> epoch, data |-> data])
    /\ events' = Append(events, Event("save", epoch, 0, <<>>))
    /\ epoch' = epoch + 1
    /\ pc' = IF InRange(epoch + 1, model_name) THEN "train" ELSE "done"
    /\ IF pc' = "train" THEN EnterTrain ELSE UNCHANGED trainLocals
    /\ UNCHANGED <<world, model_name, checkpoint_path, state, model_id,
                   start_epoch, valLocals, val_ret, reads, failure>>

\* The values of a process that is gone: its memory is lost.
ProcessGone ==
    /\ net' = NoNet
    /\ optimizer' = FreshOptimizer
    /\ scheduler' = FreshScheduler
    /\ loggers' = InitializeLoggers
    /\ batch_i' = 0
    /\ batches_loss' = RZero
    /\ train_base' = 0
    /\ losses' = <<>>
    /\ updates' = <<>>
    /\ failure' = ""
    /\ EnterValidate
    /\ val_ret' = NoReturn
    /\ events' = <<>>
    /\ reads' = 0

\* The process is killed from outside, at any point.  A kill during torch.save
\* leaves the file of the epoch being written absent or cut short.
Kill ==
    /\ pc \in Running
    /\ pc' = "killed"
    /\ \/ UNCHANGED files
       \/ /\ pc = "save"
          /\ fs' = WriteFile(fs, CheckpointFile(model_name, model_id, epoch),
                             CorruptFile)
          /\ saved' = WriteFile(saved,
                                CheckpointFile(model_name, model_id, epoch),
                                NoSnapshot)
    /\ ProcessGone
    /\ UNCHANGED <<world, model_name, checkpoint_path, model_id, start_epoch,
                   epoch, written>>

\* The user starts the program again, in the same second or later.
Restart ==
    /\ pc \in Terminal
    /\ runs < MaxRuns
    /\ runs' = runs + 1
    /\ \E dt \in {0, 1} : clock' = clock + dt
    /\ pc' = "main"
    /\ model_name' = "none"
    /\ checkpoint_path' = NoPath
    /\ model_id' = 0
    /\ start_epoch' = 0
    /\ epoch' = 0
    /\ written' = <<>>
    /\ ProcessGone
    /\ UNCHANGED <<files, train_batches, val_labels>>

Step ==
    \/ Main
    \/ InitializeTrainLoader
    \/ InitializeValLoader
    \/ Setup
    \/ LoadCheckpoint
    \/ ValidateBatch
    \/ ValidateEnd
    \/ TrainBatch
    \/ TrainEnd
    \/ SchedulerStep
    \/ SaveCheckpoint

Next == Step \/ Kill \/ Restart

Spec == Init /\ [][Next]_vars

\* The process runs as long as it is not killed: its steps are taken.
FairSpec == Spec /\ WF_vars(Step)

\* ----------------------------------- the validation pass on its own
\* The state in which run_epochs calls validate for epoch 0 (after Setup,
\* without a checkpoint), for every initialisation up to MaxSeed and every
\* labelling of a validation set of up to MaxValSize samples.
ValInit ==
    /\ fs = [f \in {} |-> CorruptFile]
    /\ saved = [f \in {} |-> NoSnapshot]
    /\ clock = 1
    /\ runs = 1
    /\ train_batches = LogEvery
    /\ val_labels \in UNION {[1 .. size -> Classes] : size \in 1 .. MaxValSize}
    /\ pc = "validate"
    /\ model_name \in ModelKeys
    /\ checkpoint_path = NoPath
    /\ \E seed \in 0 .. MaxSeed : net = FreshNet(model_name, seed)
    /\ optimizer = FreshOptimizer
    /\ scheduler = FreshScheduler
    /\ loggers = InitializeLoggers
    /\ model_id = clock
    /\ start_epoch = 1
    /\ epoch = 0
    /\ batch_i = 0
    /\ batches_loss = RZero
    /\ train_base = 0
    /\ losses = <<>>
    /\ updates = <<>>
    /\ val_i = 0
    /\ top1_acc = RZero
    /\ top5_acc = RZero
    /\ total_loss = RZero
    /\ val_ret = NoReturn
    /\ events = <<>>
    /\ written = <<>>
    /\ reads = 0
    /\ failure = ""
    /\ vghost = NoGhost

ValNext == ValidateBatch \/ ValidateEnd

ValSpec == ValInit /\ [][ValNext]_vars

\* ================================================================= claims
LoopPcs == {"train", "validate", "sched", "save"}

\* The steps of run_epochs this process completed, the checkpoint load apart.
RunEvents ==
    IF events # <<>> /\ events[1].op = "load" THEN Tail(events) ELSE events

StepNames == <<"train", "validate", "sched", "save">>

PcOffset(p) ==
    CASE p = "train" -> 0 [] p = "validate" -> 1 [] p = "sched" -> 2
      [] OTHER -> 3

\* C1: in every epoch run_epochs executes, the steps are, once each and in
\* this order, train over all training batches, validate over the whole
\* validation set, one scheduler step (with that epoch's validation top-1
\* accuracy for a ReduceLROnPlateau, without argument otherwise) and the
\* write of the epoch's checkpoint; the step in progress is the one after
\* the steps completed, so no step of epoch n+1 starts before the checkpoint
\* of epoch n is written.
C1_EpochStepOrder ==
    LET ev == RunEvents
    IN  /\ \A i \in 2 .. Len(ev) :
              LET k == i - 2
                  e == start_epoch + (k \div 4)
                  op == StepNames[(k % 4) + 1]
              IN  /\ ev[i].op = op
                  /\ ev[i].epoch = e
                  /\ op = "train" => ev[i].n = train_batches
                  /\ op = "validate" => ev[i].n = NumValBatches
                  /\ op = "sched" =>
                        ev[i].arg =
                            IF TrainingConfig(model_name).scheduler
                                  = "ReduceLROnPlateau"
                            THEN ev[i - 1].arg ELSE <<>>
                  /\ op = "save" =>
                        /\ CheckpointFile(model_name, model_id, e) \in DOMAIN fs
                        /\ fs[CheckpointFile(model_name, model_id, e)].ok
        /\ (pc \in LoopPcs /\ epoch >= 1) =>
              Len(ev) = 1 + 4 * (epoch - start_epoch) + PcOffset(pc)

\* C1 witness: a run from epoch 1 that has written the checkpoint of the
\* last epoch.
C1_Witness ==
    /\ start_epoch = 1
    /\ \E i \in 1 .. Len(events) :
          events[i].op = "save" /\ events[i].epoch = TotalEpochs

PastSetup == {"validate", "train", "sched", "save", "done"}

\* C2: load_checkpoint on a file saved at the end of epoch n returns the
\* model, optimizer and scheduler state and the logger state of the moment
\* of the save and start_epoch = n + 1; a run without a checkpoint has
\* start_epoch = 1.
C2_CheckpointRoundTrip ==
    /\ (pc = "validate" /\ events = <<Event("load", 0, 0, <<>>)>>) =>
          LET snap == saved[checkpoint_path]
          IN  /\ NetStateDict(net) = NetStateDict(snap.net)
              /\ optimizer = snap.optimizer
              /\ scheduler = snap.scheduler
              /\ loggers = snap.loggers
              /\ start_epoch = snap.epoch + 1
    /\ (pc \in PastSetup /\ checkpoint_path # NoPath) =>
          start_epoch = saved[checkpoint_path].epoch + 1
    /\ (pc \in PastSetup /\ checkpoint_path = NoPath) => start_epoch = 1

\* C2 witness: a process that has just loaded the checkpoint of epoch 1, of
\* a trained network.
C2_Witness ==
    /\ pc = "validate"
    /\ events = <<Event("load", 0, 0, <<>>)>>
    /\ start_epoch = 2
    /\ net.version = train_batches
    /\ Len(loggers["val_loss"].epochs) = 2

IsTrain(ev) == ev.op = "train"

\* The training epochs run so far are start_epoch, start_epoch + 1, ... in
\* this order and none is above total_epochs; a finished run has run them
\* all, and none (and written nothing) when start_epoch > total_epochs.
EpochsInOrder ==
    LET trained == SelectSeq(events, IsTrain)
        total == TrainingConfig(model_name).total_epochs
    IN  /\ \A j \in 1 .. Len(trained) :
              /\ trained[j].epoch = start_epoch + j - 1
              /\ trained[j].epoch <= total
        /\ (pc \in LoopPcs /\ epoch >= 1) => epoch <= total
        /\ pc = "done" =>
              /\ Len(trained) = Max(0, total - start_epoch + 1)
              /\ Len(written) = Len(trained)
              /\ start_epoch > total => (trained = <<>> /\ written = <<>>)

\* C3: the epoch driver terminates: a running process reaches its end, and
\* it runs the training epochs start_epoch .. total_epochs once each in
\* increasing order, never an epoch above total_epochs, and no epoch and no
\* checkpoint write when start_epoch > total_epochs.
C3_DriverTerminates ==
    /\ []EpochsInOrder
    /\ (pc \in Running) ~> (pc \in Terminal)

\* C3 witness: a run resumed from the checkpoint of the last epoch has
\* finished.
C3_Witness ==
    /\ pc = "done"
    /\ start_epoch = TotalEpochs + 1
    /\ events # <<>> /\ events[1].op = "load"

\* C4: while and after train processes the batches of an epoch, the points
\* it has appended to train_loss number floor(b / 10) after b batches, and
\* floor(N / 10) once the N batches of the epoch are done.
C4_TrainLossPoints ==
    LET points == Len(loggers["train_loss"].epochs) - train_base
    IN  /\ pc = "train" => points = batch_i \div 10
        /\ (pc \in {"validate", "sched", "save"} /\ epoch >= 1) =>
              /\ batch_i = train_batches
              /\ points = train_batches \div 10

\* C4 witness: an epoch of a number of batches that is no multiple of 10 is
\* trained, with a point logged.
C4_Witness ==
    /\ pc = "validate"
    /\ epoch >= 1
    /\ batch_i % 10 # 0
    /\ Len(loggers["train_loss"].epochs) - train_base >= 1

\* C5: the top-1 and top-5 accuracy validate returns are 100 * (samples whose
\* label is among the k best classes) / (size of the validation set), and
\* the loss it returns is the mean over the validation set, whatever the
\* set size and batch size (a smaller last batch included).
C5_ValidateDatasetAverage ==
    val_ret.epoch >= 0 =>
        /\ REq(val_ret.top1_acc, Rat(100 * val_ret.hits1, val_ret.samples))
        /\ REq(val_ret.top5_acc, Rat(100 * val_ret.hits5, val_ret.samples))
        /\ REq(val_ret.val_loss, Rat(val_ret.loss_sum, val_ret.samples))

Hundred == Rat(100, 1)

\* C6: the top-1 and top-5 accuracy of every batch lie in [0, 100] with
\* top-1 <= top-5, and so do the epoch-level values validate returns and
\* logs.
C6_AccuracyBounds ==
    /\ RLe(RZero, vghost.acc1)
    /\ RLe(vghost.acc1, vghost.acc5)
    /\ RLe(vghost.acc5, Hundred)
    /\ val_ret.epoch >= 0 =>
          /\ RLe(RZero, val_ret.top1_acc)
          /\ RLe(val_ret.top1_acc, val_ret.top5_acc)
          /\ RLe(val_ret.top5_acc, Hundred)
          /\ loggers["val_top1_acc"].value = <<val_ret.top1_acc>>
          /\ loggers["val_top5_acc"].value = <<val_ret.top5_acc>>

\* C6 witness: validate has returned a top-1 accuracy strictly between 0 and
\* the top-5 accuracy, itself below 100, over more than one batch.
C6_Witness ==
    /\ val_ret.epoch = 0
    /\ val_i > 1
    /\ val_ret.top1_acc.n > 0
    /\ ~RLe(val_ret.top5_acc, val_ret.top1_acc)
    /\ ~RLe(Hundred, val_ret.top5_acc)

\* C7: a kill during epoch n loses that epoch only: the checkpoint file of
\* every epoch this process completed still holds what was written at the
\* end of that epoch, and the checkpoint of epoch n-1 (written by this
\* process, or the one it resumed from) resumes at epoch n.
C7_KillLosesOnlyCurrentEpoch ==
    /\ \A i \in 1 .. Len(written) :
          /\ written[i].file \in DOMAIN fs
          /\ fs[written[i].file] = [ok |-> TRUE, data |-> written[i].data]
    /\ (pc = "killed" /\ epoch >= 1) =>
          IF epoch > start_epoch
          THEN LET f == <<model_name, "-">> \o Digits(model_id)
                           \o <<"-epoch-">> \o Digits(epoch - 1) \o <<".pt">>
               IN  /\ f \in DOMAIN fs
                   /\ fs[f].ok
                   /\ ResumeEpoch(fs[f].data) = epoch
          ELSE checkpoint_path # NoPath =>
                  /\ checkpoint_path \in DOMAIN fs
                  /\ fs[checkpoint_path].ok
                  /\ ResumeEpoch(fs[checkpoint_path].data) = epoch

\* C7 witness: the process was killed while it wrote the checkpoint of an
\* epoch, after it had completed an earlier one; the file is cut short.
C7_Witness ==
    /\ pc = "killed"
    /\ Len(written) >= 1
    /\ epoch > start_epoch
    /\ CheckpointFile(model_name, model_id, epoch) \in DOMAIN fs
    /\ ~fs[CheckpointFile(model_name, model_id, epoch)].ok

IsSave(ev) == ev.op = "save"

\* C8: every completed epoch n of a run has written one file, named
\* {model}-{timestamp}-epoch-{n}.pt and holding epoch = n; no two epochs of
\* the run write the same name; and the run reads a checkpoint at most once,
\* before its first validation or training step.
C8_CheckpointWrittenOnceReadOnce ==
    /\ \A i \in 1 .. Len(written) :
          /\ written[i].epoch = start_epoch + i - 1
          /\ written[i].file =
                <<model_name, "-">> \o Digits(model_id) \o <<"-epoch-">>
                    \o Digits(written[i].epoch) \o <<".pt">>
          /\ written[i].data.epoch = written[i].epoch
    /\ \A i, j \in 1 .. Len(written) :
          i # j => written[i].file # written[j].file
    /\ (pc \in LoopPcs /\ epoch >= 1) => Len(written) = epoch - start_epoch
    /\ pc \in Running \cup {"done"} =>
          Len(written) = Len(SelectSeq(events, IsSave))
    /\ reads <= 1
    /\ reads = 1 => checkpoint_path # NoPath
    /\ (pc \in PastSetup /\ checkpoint_path # NoPath) => reads = 1
    /\ \A i \in 1 .. Len(events) : events[i].op = "load" => i = 1
    /\ (events # <<>> /\ reads = 1) => events[1].op = "load"

\* C8 witness: a run that read a checkpoint has finished and written one.
C8_Witness ==
    /\ pc = "done"
    /\ reads = 1
    /\ Len(written) = 1

IsPrefix(s, t) == Len(s) <= Len(t) /\ SubSeq(t, 1, Len(s)) = s

ValMetrics == {"val_loss", "val_top1_acc", "val_top5_acc"}

\* What a step may do to the loggers.
LoggerStep ==
    /\ \A m \in MetricNames :
          Len(loggers'[m].epochs) = Len(loggers'[m].value)
    /\ CASE pc = "load" /\ pc' = "validate" ->
                loggers' = fs[checkpoint_path].data.loggers
         [] pc' \in {"killed", "main"} -> TRUE
         [] pc = "setup" -> loggers' = InitializeLoggers
         [] pc = "validate" /\ pc' # "validate" ->
                /\ loggers'["train_loss"] = loggers["train_loss"]
                /\ \A m \in ValMetrics :
                      /\ Len(loggers'[m].epochs) = Len(loggers[m].epochs) + 1
                      /\ IsPrefix(loggers[m].epochs, loggers'[m].epochs)
                      /\ IsPrefix(loggers[m].value, loggers'[m].value)
         [] pc = "train" /\ pc' = "train" ->
                /\ \A m \in ValMetrics : loggers'[m] = loggers[m]
                /\ Len(loggers'["train_loss"].epochs) =
                      Len(loggers["train_loss"].epochs)
                          + (IF batch_i % 10 = 9 THEN 1 ELSE 0)
                /\ IsPrefix(loggers["train_loss"].epochs,
                            loggers'["train_loss"].epochs)
                /\ IsPrefix(loggers["train_loss"].value,
                            loggers'["train_loss"].value)
         [] OTHER -> loggers' = loggers

\* C9: the two lists of every metric have equal length; a log_metrics call
\* appends one element to each list of its metric and changes nothing else;
\* and after load_checkpoint the loggers of the run are those stored in the
\* checkpoint.
C9_LoggerAppendOnly == [][LoggerStep]_vars

\* C9 witness: a run that loaded the loggers of a checkpoint has appended
\* the points of a further epoch to them.
C9_Witness ==
    /\ events # <<>> /\ events[1].op = "load"
    /\ pc = "done"
    /\ Len(loggers["val_loss"].epochs) >= 4
    /\ Len(loggers["train_loss"].epochs) >= 2

\* A failed process has trained, validated and written nothing, and a
\* process gets past an operation only when the operation did not fail.
FailFast ==
    /\ (failure # "") <=> (pc = "aborted")
    /\ pc = "aborted" =>
          /\ events = <<>>
          /\ written = <<>>
          /\ reads <= 1
          /\ epoch = 0 /\ val_i = 0 /\ batch_i = 0
          /\ net.version = 0
          /\ loggers = InitializeLoggers
    /\ pc \in {"train_loader", "val_loader", "setup", "load"} \cup PastSetup
          => model_name \in ModelKeys
    /\ (pc \in PastSetup /\ checkpoint_path # NoPath) =>
          /\ checkpoint_path \in DOMAIN fs
          /\ fs[checkpoint_path].ok
          /\ fs[checkpoint_path].data.model.keys = model_name

\* C10: an unknown model key, a first training or validation image of the
\* wrong shape, and a missing, corrupt or incompatible checkpoint each abort
\* the run before any training step, validation step or checkpoint write,
\* and an aborted process does nothing more (the operation is not retried).
C10_FailFastNoRetry ==
    /\ []FailFast
    /\ [][pc = "aborted" => pc' = "main"]_vars

\* C10 witness: a run aborted on a readable checkpoint of the other
\* architecture.
C10_Witness ==
    /\ pc = "aborted"
    /\ failure = "checkpoint"
    /\ checkpoint_path \in DOMAIN fs
    /\ fs[checkpoint_path].ok

\* What a step of validate may do to the state of the run.
ValidateFrame ==
    (pc = "validate" /\ pc' # "killed") =>
        /\ NetStateDict(net') = NetStateDict(net)
        /\ net'.grad = net.grad
        /\ optimizer' = optimizer
        /\ scheduler' = scheduler
        /\ loggers'["train_loss"] = loggers["train_loss"]
        /\ IF pc' = "validate"
           THEN loggers' = loggers
           ELSE /\ loggers'["val_top1_acc"] =
                      [epochs |-> Append(loggers["val_top1_acc"].epochs, epoch),
                       value |-> Append(loggers["val_top1_acc"].value,
                                        val_ret'.top1_acc)]
                /\ loggers'["val_top5_acc"] =
                      [epochs |-> Append(loggers["val_top5_acc"].epochs, epoch),
                       value |-> Append(loggers["val_top5_acc"].value,
                                        val_ret'.top5_acc)]
                /\ loggers'["val_loss"] =
                      [epochs |-> Append(loggers["val_loss"].epochs, epoch),
                       value |-> Append(loggers["val_loss"].value,
                                        val_ret'.val_loss)]

\* C11: validate changes no training state: across every step of a validate
\* call the parameters and buffers of the model, its gradients, the
\* optimizer and the scheduler are unchanged and so is train_loss; the call
\* appends nothing before its end and there exactly one point, labelled
\* with the epoch it was given, to each of val_top1_acc, val_top5_acc and
\* val_loss.
C11_ValidateFrame == [][ValidateFrame]_vars

\* C11 witness: the validation after a training epoch has returned, on a
\* network that was updated and holds the gradients of the last batch.
C11_Witness ==
    /\ pc = "sched"
    /\ val_ret.epoch = epoch
    /\ net.version >= train_batches
    /\ net.grad # <<>>
    /\ ~net.training
    /\ Len(loggers["val_loss"].epochs) >= 2

\* C13: the j-th train_loss point of an epoch is labelled with the epoch and
\* its value is the sum of the losses of batches 10(j-1)+1 .. 10j of that
\* epoch divided by 10; the accumulator holds the losses of the batches
\* after the last point only (zero at the start of the epoch and after
\* every point), so the last N mod 10 losses of an epoch are in no point.
C13_WindowMeans ==
    (pc = "train" \/ (pc \in {"validate", "sched", "save"} /\ epoch >= 1)) =>
        LET points == batch_i \div 10
            logged == loggers["train_loss"]
        IN  /\ Len(losses) = batch_i
            /\ Len(logged.epochs) = train_base + points
            /\ Len(logged.value) = train_base + points
            /\ \A j \in 1 .. points :
                  /\ logged.epochs[train_base + j] = epoch
                  /\ logged.value[train_base + j] =
                        Rat(SeqSum(SubSeq(losses, 10 * (j - 1) + 1, 10 * j)),
                            10)
            /\ batches_loss =
                  Rat(SeqSum(SubSeq(losses, 10 * points + 1, batch_i)), 1)
            /\ batch_i % 10 = 0 => batches_loss = RZero

\* C13 witness: the second epoch of a run is trained, with two points of
\* different value logged in it and batches left over.
C13_Witness ==
    /\ pc = "validate"
    /\ epoch = 2
    /\ train_base >= 2
    /\ batch_i = train_batches
    /\ batch_i \div 10 = 2
    /\ batch_i % 10 # 0
    /\ batches_loss # RZero
    /\ loggers["train_loss"].value[train_base + 1]
          # loggers["train_loss"].value[train_base + 2]

\* C14: for every batch train resets the gradients, runs the backward pass
\* and applies one optimizer update, in this order: the update of batch i
\* uses the gradients of batch i alone, after b batches of an epoch b
\* updates were applied in it, and N once its N batches are done.
C14_TrainStepProtocol ==
    (pc = "train" \/ (pc \in {"validate", "sched", "save"} /\ epoch >= 1)) =>
        /\ Len(updates) = batch_i
        /\ \A i \in 1 .. Len(updates) : updates[i] = <<(<<epoch, i - 1>>)>>
        /\ batch_i >= 1 => net.grad = <<(<<epoch, batch_i - 1>>)>>
        /\ optimizer.steps = (epoch - 1) * train_batches + batch_i
        /\ net.version = optimizer.steps
        /\ pc # "train" => batch_i = train_batches

\* C14 witness: the last epoch is trained; every batch of it had its update.
C14_Witness ==
    /\ pc = "sched"
    /\ epoch = TotalEpochs
    /\ Len(updates) = train_batches
    /\ train_batches > 10
    /\ optimizer.steps = TotalEpochs * train_batches

\* The epoch labels of train_loss after the epochs 1 .. k were trained once
\* each, in order.
TrainedOnce(k) ==
    LET per == train_batches \div 10
    IN  [i \in 1 .. k * per |-> ((i - 1) \div per) + 1]

\* C15: resuming from the checkpoint of epoch n continues the run it was
\* written by: over the chain of runs every epoch up to the current one was
\* trained once (parameter updates, train_loss labels) and the scheduler
\* stepped once per epoch, in a fresh and in a resumed run alike; a run
\* ends with all of 1 .. total_epochs behind it; and at the start of epoch
\* n+1 the resumed run holds the model, optimizer and scheduler state the
\* writing run had when it went on from the save of epoch n.
C15_ResumeEquivalence ==
    /\ (pc \in LoopPcs /\ epoch >= 1) =>
          /\ scheduler.last_epoch = (IF pc = "save" THEN epoch ELSE epoch - 1)
          /\ Len(scheduler.metrics) = scheduler.last_epoch
          /\ optimizer.steps =
                (IF pc = "train" THEN (epoch - 1) * train_batches + batch_i
                 ELSE epoch * train_batches)
          /\ net.version = optimizer.steps
          /\ net.buffers = optimizer.steps
          /\ (pc # "train" \/ batch_i = train_batches) =>
                loggers["train_loss"].epochs = TrainedOnce(epoch)
          /\ (pc = "train" /\ batch_i = 0) =>
                loggers["train_loss"].epochs = TrainedOnce(epoch - 1)
    /\ pc = "done" =>
          /\ epoch - 1 >= TrainingConfig(model_name).total_epochs
          /\ scheduler.last_epoch = epoch - 1
          /\ optimizer.steps = (epoch - 1) * train_batches
          /\ loggers["train_loss"].epochs = TrainedOnce(epoch - 1)
    /\ (pc = "train" /\ batch_i = 0 /\ epoch = start_epoch
            /\ checkpoint_path # NoPath) =>
          LET snap == saved[checkpoint_path]
          IN  /\ NetStateDict(net) = NetStateDict(snap.net)
              /\ optimizer = snap.optimizer
              /\ scheduler = snap.scheduler
              /\ snap.epoch = epoch - 1
    /\ \A i \in 1 .. Len(written) :
          LET snap == saved[written[i].file]
          IN  /\ snap.epoch = start_epoch + i - 1
              /\ snap.scheduler.last_epoch = snap.epoch
              /\ snap.optimizer.steps = snap.epoch * train_batches
              /\ (i = Len(written) /\ pc = "train" /\ batch_i = 0) =>
                    /\ NetStateDict(net) = NetStateDict(snap.net)
                    /\ optimizer = snap.optimizer
                    /\ scheduler = snap.scheduler

\* C15 witness: a run resumed from the checkpoint of epoch 1 has trained the
\* epochs left and finished.
C15_Witness ==
    /\ pc = "done"
    /\ events # <<>> /\ events[1].op = "load"
    /\ start_epoch = 2
    /\ scheduler.last_epoch = TotalEpochs
    /\ optimizer.steps = TotalEpochs * train_batches
    /\ train_batches > 10

\* C16: in every run, fresh or resumed, the epoch labels of each metric are
\* non-decreasing in append order, and those of each validation metric
\* strictly increasing (no two points of one epoch, no earlier epoch after
\* a later one).
C16_EpochLabelsMonotone ==
    /\ \A m \in MetricNames :
          \A i \in 1 .. Len(loggers[m].epochs) - 1 :
              loggers[m].epochs[i] <= loggers[m].epochs[i + 1]
    /\ \A m \in ValMetrics :
          \A i \in 1 .. Len(loggers[m].epochs) - 1 :
              loggers[m].epochs[i] < loggers[m].epochs[i + 1]

IsValidate(ev) == ev.op = "validate"

\* C17: a run validates once with label 0 before its first training epoch
\* and otherwise only right after the training of an epoch, with that
\* epoch's label; the checkpoint a run started without a checkpoint writes
\* at the end of epoch n holds the points labelled 0, 1, ..., n in each of
\* val_loss, val_top1_acc and val_top5_acc; and the three validation
\* metrics are equally long in every state.
C17_ValidationAtEpochZero ==
    /\ \A m \in ValMetrics :
          /\ Len(loggers[m].epochs) = Len(loggers["val_loss"].epochs)
          /\ Len(loggers[m].value) = Len(loggers["val_loss"].epochs)
    /\ LET ev == RunEvents
       IN  /\ \A i \in 1 .. Len(ev) :
                 IsValidate(ev[i]) =>
                     IF i = 1 THEN ev[i].epoch = 0
                     ELSE /\ ev[i - 1].op = "train"
                          /\ ev[i].epoch = ev[i - 1].epoch
                          /\ ev[i].epoch >= 1
           /\ ev # <<>> => IsValidate(ev[1])
           /\ (pc \in {"train", "sched", "save", "done"}
                 \/ (pc = "validate" /\ epoch >= 1)) => ev # <<>>
           /\ \A i \in 1 .. Len(ev) :
                 (ev[i].op = "train" /\ (i < Len(ev) \/ pc # "validate")) =>
                     (i < Len(ev) /\ IsValidate(ev[i + 1]))
    /\ checkpoint_path = NoPath =>
          \A i \in 1 .. Len(written) :
              LET n == written[i].epoch
              IN  /\ fs[written[i].file].data.epoch = n
                  /\ \A m \in ValMetrics :
                        /\ fs[written[i].file].data.loggers[m].epochs
                              = [j \in 1 .. n + 1 |-> j - 1]
                        /\ Len(fs[written[i].file].data.loggers[m].value)
                              = n + 1

\* C17 witness: a run started without a checkpoint has written the
\* checkpoint of every epoch.
C17_Witness ==
    /\ pc = "done"
    /\ checkpoint_path = NoPath
    /\ Len(written) = TotalEpochs
    /\ Len(loggers["val_top5_acc"].epochs) = TotalEpochs + 1

====
